---- MODULE Spec2Model ----
(***************************************************************************)
(* structo: the file organizer.  A model of the relocation engine          *)
(* (organizeFiles and what it calls), of the log file set-up and of the    *)
(* process life cycle around it, from the parsing of the command line on   *)
(* (Spec), and of the partition functions of quarter.go called on their    *)
(* own (SpecFn).                                                           *)
(*                                                                         *)
(* A file name is a sequence of one-character strings, a path is a         *)
(* sequence of names relative to the working directory, and the file       *)
(* system is a function from the existing paths to their entries.          *)
(***************************************************************************)
EXTENDS Naturals, Integers, Sequences, FiniteSets, TLC

(***************************************************************************)
(* Bounds of the model.                                                    *)
(***************************************************************************)
\* visits of the walk in which the environment makes a system call fail
MaxFaults == 1
\* files already present at the raw destination x.t, x(1).t, ...
MaxPre == 2
\* the longest path the file system takes, in names (PATH_MAX)
MaxPathLen == 9

None == "none"

(***************************************************************************)
(* Strings.                                                                *)
(***************************************************************************)
\* the characters of the model in byte order (sort.Strings compares bytes)
Ascii ==
  <<" ", "(", ")", "-", ".",
    "0", "1", "2", "3", "4", "5", "6", "7", "8", "9",
    "A", "B", "C", "D", "E", "F", "G", "H", "I", "J", "K", "L", "M",
    "N", "O", "P", "Q", "R", "S", "T", "U", "V", "W", "X", "Y", "Z",
    "_",
    "a", "b", "c", "d", "e", "f", "g", "h", "i", "j", "k", "l", "m",
    "n", "o", "p", "q", "r", "s", "t", "u", "v", "w", "x", "y", "z">>

CharRank(c) == CHOOSE i \in 1..Len(Ascii) : Ascii[i] = c

\* a < b for strings: at the first place where they differ, a has ended or
\* has the lesser byte
StrLess(a, b) ==
  \E i \in 1..(Len(a) + 1) :
    /\ \A j \in 1..(i - 1) : j <= Len(b) /\ a[j] = b[j]
    /\ IF i > Len(a) THEN Len(b) >= i
       ELSE i <= Len(b) /\ CharRank(a[i]) < CharRank(b[i])

\* sort.Strings over a directory's names
SortNames(S) ==
  [i \in 1..Cardinality(S) |->
     CHOOSE a \in S : Cardinality({b \in S : StrLess(b, a)}) = i - 1]

Digit(d) == <<"0", "1", "2", "3", "4", "5", "6", "7", "8", "9">>[d + 1]

\* fmt's %d
RECURSIVE Itoa(_)
Itoa(n) ==
  IF n < 0 THEN <<"-">> \o Itoa(0 - n)
  ELSE IF n < 10 THEN <<Digit(n)>> ELSE Itoa(n \div 10) \o <<Digit(n % 10)>>

\* fmt's %02d
Pad2(n) == IF n < 10 THEN <<"0">> \o Itoa(n) ELSE Itoa(n)

RECURSIVE TrimRight(_)
TrimRight(s) ==
  IF s # <<>> /\ s[Len(s)] = " " THEN TrimRight(SubSeq(s, 1, Len(s) - 1)) ELSE s

RECURSIVE TrimLeft(_)
TrimLeft(s) == IF s # <<>> /\ Head(s) = " " THEN TrimLeft(Tail(s)) ELSE s

(***************************************************************************)
(* Paths.                                                                  *)
(***************************************************************************)
\* filepath.Clean of a relative path: empty elements vanish
Clean(p) == SelectSeq(p, LAMBDA n : n # <<>>)

Join(dir, rel) == Clean(dir \o rel)

Dir(p) == SubSeq(p, 1, Len(p) - 1)

Base(p) == p[Len(p)]

\* the working directory of the process
Cwd == << <<"w">> >>

Abs(p) == Cwd \o Clean(p)

\* strings.TrimSpace of the path string: the white space before its first
\* element and after its last
TrimSpace(p) ==
  IF p = <<>> THEN p
  ELSE LET q == [p EXCEPT ![Len(p)] = TrimRight(@)]
       IN Clean([q EXCEPT ![1] = TrimLeft(@)])

IsPrefix(a, b) == Len(a) <= Len(b) /\ SubSeq(b, 1, Len(a)) = a

\* filepath.Rel(base, p) for a p below base
Rel(base, p) == SubSeq(p, Len(base) + 1, Len(p))

\* filepath.Ext: the suffix that starts at the last dot of the name
RECURSIVE ExtFrom(_, _)
ExtFrom(name, i) ==
  IF i < 1 THEN <<>>
  ELSE IF name[i] = "." THEN SubSeq(name, i, Len(name))
  ELSE ExtFrom(name, i - 1)

Ext(name) == ExtFrom(name, Len(name))

(***************************************************************************)
(* Time stamps: a calendar date and the hour of the day, in UTC.           *)
(***************************************************************************)
Time(y, m, d, h) == [year |-> y, month |-> m, day |-> d, hour |-> h]

\* time.Time.After
After(t, u) ==
  \/ t.year > u.year
  \/ t.year = u.year /\ t.month > u.month
  \/ t.year = u.year /\ t.month = u.month /\ t.day > u.day
  \/ t.year = u.year /\ t.month = u.month /\ t.day = u.day /\ t.hour > u.hour

\* the value of a decimal digit, -1 for any other character
DigitValue(c) ==
  IF \E d \in 0..9 : Digit(d) = c THEN CHOOSE d \in 0..9 : Digit(d) = c ELSE 0 - 1

\* the number prev with the digit of value d written after it, -1 if there
\* is no such number
AtoiStep(prev, d) == IF prev < 0 \/ d < 0 THEN 0 - 1 ELSE 10 * prev + d

\* the number written by the characters i..j of s, -1 if one is no digit
RECURSIVE Atoi(_, _, _)
Atoi(s, i, j) ==
  IF i > j THEN 0 ELSE AtoiStep(Atoi(s, i, j - 1), DigitValue(s[j]))

\* the days of month m of year y
DaysIn(y, m) ==
  IF m = 2
  THEN (IF (y % 4 = 0 /\ y % 100 # 0) \/ y % 400 = 0 THEN 29 ELSE 28)
  ELSE IF m \in {4, 6, 9, 11} THEN 30 ELSE 31

\* the date of the numbers y, m, d, if the calendar has it
DateOf(y, m, d) ==
  IF y >= 0 /\ m \in 1..12 /\ d \in 1..DaysIn(y, m)
  THEN [err |-> "", time |-> Time(y, m, d, 0)]
  ELSE [err |-> "parsing time", time |-> Time(1, 1, 1, 0)]

\* time.Parse("2006-01-02", s): four digits, two digits, two digits, with
\* hyphens between them, nothing else, and a day the month has; the time is
\* midnight UTC of that day
ParseLayout(s) ==
  IF Len(s) = 10 /\ s[5] = "-" /\ s[8] = "-"
  THEN DateOf(Atoi(s, 1, 4), Atoi(s, 6, 7), Atoi(s, 9, 10))
  ELSE [err |-> "parsing time", time |-> Time(1, 1, 1, 0)]

\* time.Parse("2006-01-02", s) of a date that validateDate has let pass
ParseDate(date) == ParseLayout(date).time

\* a label of the meridiem alone
MeridiemLabel(t) == IF t.hour < 12 THEN <<"A", "M">> ELSE <<"P", "M">>

\* time.Time.Format("03PM"): hour of the 12-hour clock, two digits, meridiem
HourLabel(t) ==
  LET h12 == IF t.hour % 12 = 0 THEN 12 ELSE t.hour % 12
  IN Pad2(h12) \o (IF t.hour < 12 THEN <<"A", "M">> ELSE <<"P", "M">>)

(***************************************************************************)
(* Partition schemes (FolderFormat) and their directories.                 *)
(***************************************************************************)
YearThenQuarters == "YearThenQuarters"
DayThenHours == "DayThenHours"
HalfYears == "HalfYears"

QuartersEn ==
  << <<"J", "a", "n", "-", "M", "a", "r">>, <<"A", "p", "r", "-", "J", "u", "n">>,
     <<"J", "u", "l", "-", "S", "e", "p">>, <<"O", "c", "t", "-", "D", "e", "c">> >>

QuartersEs ==
  << <<"E", "n", "e", "-", "M", "a", "r">>, <<"A", "b", "r", "-", "J", "u", "n">>,
     <<"J", "u", "l", "-", "S", "e", "p">>, <<"O", "c", "t", "-", "D", "i", "c">> >>

\* the map quarters[lang]: no entry gives the empty slice
QuarterTable(lang) ==
  IF lang = "en" THEN QuartersEn ELSE IF lang = "es" THEN QuartersEs ELSE <<>>

\* quarters counted from month \div 3
quarterInfoByDiv(month, lang) ==
  IF month < 1 \/ month > 12 THEN [num |-> 0, label |-> <<>>]
  ELSE LET quarterNum == IF month = 12 THEN 4 ELSE (month \div 3) + 1
           quarterLabels == IF Len(QuarterTable(lang)) = 0
                            THEN QuarterTable("en") ELSE QuarterTable(lang)
       IN [num |-> quarterNum, label |-> quarterLabels[quarterNum]]

quarterInfoForMonth(month, lang) ==
  IF month < 1 \/ month > 12 THEN [num |-> 0, label |-> <<>>]
  ELSE LET quarterNum == ((month - 1) \div 3) + 1
           quarterLabels == IF Len(QuarterTable(lang)) = 0
                            THEN QuarterTable("en") ELSE QuarterTable(lang)
       IN [num |-> quarterNum, label |-> quarterLabels[quarterNum]]

buildQuarterFolder(outputRoot, modTime, lang) ==
  LET q == quarterInfoForMonth(modTime.month, lang)
  IN IF q.num = 0 THEN [err |-> "invalid month", dir |-> <<>>]
     ELSE [err |-> "",
           dir |-> Join(outputRoot,
                        <<Itoa(modTime.year), <<"Q">> \o Itoa(q.num) \o <<"_">> \o q.label>>)]

buildHourFolder(outputFolder, modTime) ==
  IF \/ modTime.year = 0
     \/ modTime.month < 1 \/ modTime.month > 12
     \/ modTime.day < 1 \/ modTime.day > 31
  THEN [err |-> "invalid date", dir |-> <<>>]
  ELSE [err |-> "",
        dir |-> Join(outputFolder,
                     <<Itoa(modTime.year) \o <<"-">> \o Pad2(modTime.month)
                         \o <<"-">> \o Pad2(modTime.day),
                       HourLabel(modTime)>>)]

(***************************************************************************)
(* quarter.go: the schemes' tags and the directories of the three schemes. *)
(***************************************************************************)
FolderFormats == {YearThenQuarters, DayThenHours, HalfYears}

FormatYearQuarters == "year-then-quarters"
FormatDayHours == "day-then-hours"
FormatHalfYears == "half-years"
SpanishFormatYearQuarters == "año-luego-cuartos"
SpanishFormatDayHours == "dia-luego-horas"
SpanishHalfYears == "medios-años"

\* the map stateName, read by FolderFormat.String
stateName(ss) ==
  IF ss = YearThenQuarters THEN FormatYearQuarters
  ELSE IF ss = DayThenHours THEN FormatDayHours
  ELSE IF ss = HalfYears THEN FormatHalfYears
  ELSE ""

\* the map reverseStateName: <<>> for a key it does not have
reverseStateName(input) ==
  IF input \in {FormatYearQuarters, SpanishFormatYearQuarters} THEN <<YearThenQuarters>>
  ELSE IF input \in {FormatDayHours, SpanishFormatDayHours} THEN <<DayThenHours>>
  ELSE IF input \in {FormatHalfYears, SpanishHalfYears} THEN <<HalfYears>>
  ELSE <<>>

\* a parser that takes a tag it does not know for the first scheme
ParseFolderFormatOrFirst(input) ==
  IF reverseStateName(input) # <<>>
  THEN [err |-> "", format |-> reverseStateName(input)[1]]
  ELSE [err |-> "", format |-> YearThenQuarters]

\* with an error the format returned is 0, the value of YearThenQuarters
ParseFolderFormat(input) ==
  IF reverseStateName(input) # <<>>
  THEN [err |-> "", format |-> reverseStateName(input)[1]]
  ELSE [err |-> "invalid FolderFormat", format |-> YearThenQuarters]

formatQuarterFolder(quarterNum, quarterLabel) ==
  <<"Q">> \o Itoa(quarterNum) \o <<"_">> \o quarterLabel

QuarterFolder(outputRoot, modTime, q) ==
  IF q.num = 0 THEN [err |-> "invalid month", dir |-> <<>>]
  ELSE [err |-> "",
        dir |-> Join(outputRoot,
                     <<Itoa(modTime.year), formatQuarterFolder(q.num, q.label)>>)]

createYearThenQuartersFolder(outputRoot, modTime, lang) ==
  QuarterFolder(outputRoot, modTime, quarterInfoForMonth(modTime.month, lang))

\* a check of the month alone
isValidMonth(year, month, day) == month >= 1 /\ month <= 12

isValidDate(year, month, day) ==
  year > 0 /\ month >= 1 /\ month <= 12 /\ day >= 1 /\ day <= 31

createDayThenHoursFolder(outputFolder, modTime) ==
  IF ~isValidDate(modTime.year, modTime.month, modTime.day)
  THEN [err |-> "invalid date", dir |-> <<>>]
  ELSE [err |-> "",
        dir |-> Join(outputFolder,
                     <<Itoa(modTime.year) \o <<"-">> \o Pad2(modTime.month)
                         \o <<"-">> \o Pad2(modTime.day),
                       HourLabel(modTime)>>)]

SemestersEn ==
  << <<"J", "A", "N", "-", "F", "E", "B", "-", "M", "A", "R", "-", "A", "P", "R", "-", "M", "A", "Y", "-", "J", "U", "N">>,
     <<"J", "U", "L", "-", "A", "U", "G", "-", "S", "E", "P", "-", "O", "C", "T", "-", "N", "O", "V", "-", "D", "E", "C">> >>

SemestersEs ==
  << <<"E", "N", "E", "-", "F", "E", "B", "-", "M", "A", "R", "-", "A", "B", "R", "-", "M", "A", "Y", "-", "J", "U", "N">>,
     <<"J", "U", "L", "-", "A", "G", "O", "-", "S", "E", "P", "-", "O", "C", "T", "-", "N", "O", "V", "-", "D", "I", "C">> >>

\* the map semesters[lang]: no entry gives the empty slice
SemesterTable(lang) ==
  IF lang = "en" THEN SemestersEn ELSE IF lang = "es" THEN SemestersEs ELSE <<>>

\* the second half of the year beginning with June
semesterInfoFromJune(month, lang) ==
  IF month < 1 \/ month > 12 THEN [num |-> 0, label |-> <<>>]
  ELSE LET semesterNum == IF month >= 6 THEN 2 ELSE 1
           semesterLabels == IF Len(SemesterTable(lang)) = 0
                             THEN SemesterTable("en") ELSE SemesterTable(lang)
       IN [num |-> semesterNum, label |-> semesterLabels[semesterNum]]

semesterInfoForMonth(month, lang) ==
  IF month < 1 \/ month > 12 THEN [num |-> 0, label |-> <<>>]
  ELSE LET semesterNum == IF month > 6 THEN 2 ELSE 1
           semesterLabels == IF Len(SemesterTable(lang)) = 0
                             THEN SemesterTable("en") ELSE SemesterTable(lang)
       IN [num |-> semesterNum, label |-> semesterLabels[semesterNum]]

SemesterFolder(outputRoot, modTime, sem) ==
  IF sem.num = 0 THEN [err |-> "invalid month", dir |-> <<>>]
  ELSE [err |-> "",
        dir |-> Join(outputRoot, <<Itoa(modTime.year) \o <<"-">> \o sem.label>>)]

createHalfYearsFolder(outputRoot, modTime, lang) ==
  SemesterFolder(outputRoot, modTime, semesterInfoForMonth(modTime.month, lang))

createFolderFormatDirectory(outputRoot, modTime, config) ==
  IF config.FolderFormat = YearThenQuarters
  THEN createYearThenQuartersFolder(outputRoot, modTime, config.Language)
  ELSE IF config.FolderFormat = DayThenHours
  THEN createDayThenHoursFolder(outputRoot, modTime)
  ELSE IF config.FolderFormat = HalfYears
  THEN createHalfYearsFolder(outputRoot, modTime, config.Language)
  ELSE [err |-> "unsupported FolderFormat", dir |-> <<>>]

(***************************************************************************)
(* config.go: the command line and the configuration made of it.  An       *)
(* option that was not given is <<>>, one that was given is <<value>>; the  *)
(* empty string of a path is the empty path.                               *)
(***************************************************************************)
\* FilesMoveConfiguration{}
ZeroConfig ==
  [InputFolder |-> <<>>, OutputFolder |-> <<>>, Language |-> "",
   PreserveStructure |-> FALSE, DryRun |-> FALSE, Before |-> <<>>, Logger |-> <<>>,
   FolderFormat |-> YearThenQuarters]

\* a validation that lets every string pass
validateDateAny(dateStr) == [err |-> "", date |-> dateStr]

validateDate(dateStr) ==
  IF ParseLayout(dateStr).err # ""
  THEN [err |-> "expected format is YYYY-MM-DD", date |-> <<>>]
  ELSE [err |-> "", date |-> dateStr]

ConfigResult(err, config) == [err |-> err, config |-> config]

\* a parser whose DryRun is the value of the no-dry-run option
ParsedArgsLive(a) ==
  IF a.Before # <<>> /\ validateDate(a.Before[1]).err # ""
  THEN ConfigResult("invalid date format for 'before'", ZeroConfig)
  ELSE IF a.FolderFormat # <<>> /\ ParseFolderFormat(a.FolderFormat[1]).err # ""
  THEN ConfigResult("invalid folder format", ZeroConfig)
  ELSE ConfigResult("",
         [InputFolder |-> a.Input,
          OutputFolder |-> a.Output,
          Language |-> a.Lang,
          PreserveStructure |-> a.PreserveStructure,
          DryRun |-> (IF a.NoDryRun # <<>> THEN a.NoDryRun[1] ELSE FALSE),
          Before |-> IF a.Before # <<>> THEN <<validateDate(a.Before[1]).date>> ELSE <<>>,
          Logger |-> <<>>,
          FolderFormat |-> IF a.FolderFormat # <<>>
                           THEN ParseFolderFormat(a.FolderFormat[1]).format
                           ELSE YearThenQuarters])

\* parseArgs from the test of the cut-off on, with Output and Lang filled in
ParsedArgs(a) ==
  IF a.Before # <<>> /\ validateDate(a.Before[1]).err # ""
  THEN ConfigResult("invalid date format for 'before'", ZeroConfig)
  ELSE IF a.FolderFormat # <<>> /\ ParseFolderFormat(a.FolderFormat[1]).err # ""
  THEN ConfigResult("invalid folder format", ZeroConfig)
  ELSE ConfigResult("",
         [InputFolder |-> a.Input,
          OutputFolder |-> a.Output,
          Language |-> a.Lang,
          PreserveStructure |-> a.PreserveStructure,
          DryRun |-> ~(IF a.NoDryRun # <<>> THEN a.NoDryRun[1] ELSE FALSE),
          Before |-> IF a.Before # <<>> THEN <<validateDate(a.Before[1]).date>> ELSE <<>>,
          Logger |-> <<>>,
          FolderFormat |-> IF a.FolderFormat # <<>>
                           THEN ParseFolderFormat(a.FolderFormat[1]).format
                           ELSE YearThenQuarters])

parseArgs(a) ==
  IF a.Input = <<>> THEN ConfigResult("invalid folders", ZeroConfig)
  ELSE ParsedArgs([a EXCEPT !.Output = IF a.Output = <<>> THEN a.Input ELSE a.Output,
                            !.Lang = IF a.Lang = "" THEN "en" ELSE a.Lang])

(***************************************************************************)
(* The file system.                                                        *)
(***************************************************************************)
\* the value of an expression, computed once: the element of a singleton
Only(S) == CHOOSE x \in S : TRUE

ZeroTime == Time(0, 0, 0, 0)

\* the time the model's processes run at: what a created file is stamped with
NowTime == Time(2025, 1, 1, 0)

DirEntry == [kind |-> "dir", id |-> 0, full |-> TRUE, mtime |-> ZeroTime, atime |-> ZeroTime]

\* a regular file: id names the content, full says that all of it is there
FileEntry(i, whole, t) ==
  [kind |-> "file", id |-> i, full |-> whole, mtime |-> t, atime |-> t]

Exists(f, p) == p \in DOMAIN f

IsDirAt(f, p) == Exists(f, p) /\ f[p].kind = "dir"

IsFileAt(f, p) == Exists(f, p) /\ f[p].kind = "file"

\* the directory that is to hold p exists (the working directory always does)
ParentOk(f, p) == Dir(p) = <<>> \/ IsDirAt(f, Dir(p))

Prefixes(p) == {SubSeq(p, 1, n) : n \in 1..Len(p)}

Put(f, p, e) == [q \in DOMAIN f \cup {p} |-> IF q = p THEN e ELSE f[q]]

Drop(f, p) == [q \in DOMAIN f \ {p} |-> f[q]]

\* os.MkdirAll: every missing directory of the path is made; an empty path,
\* a path that is too long, a regular file on the way or a failing system
\* call is an error
MkdirAll(f, dir, fails) ==
  IF \/ dir = <<>> \/ fails
     \/ Len(dir) >= MaxPathLen
     \/ \E q \in Prefixes(dir) : IsFileAt(f, q)
  THEN [err |-> "mkdir", fs |-> f]
  ELSE [err |-> "",
        fs |-> [q \in DOMAIN f \cup Prefixes(dir) |->
                  IF q \in DOMAIN f THEN f[q] ELSE DirEntry]]

\* os.Rename of a regular file: an existing regular file at dst is replaced
Rename(f, src, dst, fails) ==
  IF \/ fails
     \/ ~IsFileAt(f, src)
     \/ ~ParentOk(f, dst)
     \/ IsDirAt(f, dst)
  THEN [err |-> "rename", fs |-> f]
  ELSE [err |-> "", fs |-> Put(Drop(f, src), dst, f[src])]

\* os.Remove
Remove(f, p, fails) ==
  IF fails \/ ~Exists(f, p) THEN [err |-> "remove", fs |-> f]
  ELSE [err |-> "", fs |-> Drop(f, p)]

fileExists(f, path) == path # <<>> /\ Exists(f, path)

(***************************************************************************)
(* System calls that the environment makes fail.  A file visit has at most *)
(* one fault; the faults from "rename" on all make os.Rename fail, and     *)
(* "rename" alone lets the copy fallback run to its end.                   *)
(***************************************************************************)
MoveFaults == {"rename", "open", "create", "copy", "chtimes", "remove"}

\* "mkdirU": in the skip filter's buildAndEnsureTargetDir, "mkdirT": in
\* determineTargetPath's, "mkdirE": in ensureTargetDirectory
MkdirFaults == {"mkdirU", "mkdirT", "mkdirE"}

Faults == MoveFaults \cup MkdirFaults

(***************************************************************************)
(* Collision resolution and the transfer.                                  *)
(***************************************************************************)
\* a search that takes the first numbered name whether it is free or not
NextFreeUnchecked(f, dir, name, ext, i) ==
  Join(dir, <<name \o <<"(">> \o Itoa(i) \o <<")">> \o ext>>)

RECURSIVE NextFree(_, _, _, _, _)
NextFree(f, dir, name, ext, i) ==
  LET newBase == name \o <<"(">> \o Itoa(i) \o <<")">> \o ext
      newPath == Join(dir, <<newBase>>)
  IN IF ~fileExists(f, newPath) THEN newPath ELSE NextFree(f, dir, name, ext, i + 1)

\* a resolution that takes the candidate as it is
ensureUniquePathAsIs(f, path) == path

ensureUniquePath(f, path) ==
  IF ~fileExists(f, path) THEN path
  ELSE LET dir == Dir(path)
           base == Base(path)
           ext == Ext(base)
           name == SubSeq(base, 1, Len(base) - Len(ext))
       IN NextFree(f, dir, name, ext, 1)

\* info is what lstat gave for the walked entry: [name, mtime, isDir]
\* a copy that leaves the destination with the times of its creation
copyFileOnly(f, src, dst, info, dryRun, fault) ==
  IF dryRun THEN [err |-> "", fs |-> f]
  ELSE IF fault = "open" \/ ~Exists(f, src) THEN [err |-> "open", fs |-> f]
  ELSE IF fault = "create" \/ ~ParentOk(f, dst) \/ IsDirAt(f, dst)
       THEN [err |-> "create", fs |-> f]
  ELSE IF fault = "copy"
       THEN [err |-> "copy", fs |-> Put(f, dst, FileEntry(f[src].id, FALSE, NowTime))]
  ELSE [err |-> "", fs |-> Put(f, dst, FileEntry(f[src].id, f[src].full, NowTime))]

copyFilePreserve(f, src, dst, info, dryRun, fault) ==
  IF dryRun THEN [err |-> "", fs |-> f]
  ELSE IF fault = "open" \/ ~Exists(f, src) THEN [err |-> "open", fs |-> f]
  ELSE IF fault = "create" \/ ~ParentOk(f, dst) \/ IsDirAt(f, dst)
       THEN [err |-> "create", fs |-> f]
  ELSE IF fault = "copy"
       THEN [err |-> "copy", fs |-> Put(f, dst, FileEntry(f[src].id, FALSE, NowTime))]
  ELSE IF fault = "chtimes"
       THEN [err |-> "chtimes", fs |-> Put(f, dst, FileEntry(f[src].id, f[src].full, NowTime))]
  ELSE [err |-> "", fs |-> Put(f, dst, FileEntry(f[src].id, f[src].full, info.mtime))]

\* moveFile's result names the final destination and how the file got there
MoveResult(err, f, uniqueDst, how) == [err |-> err, fs |-> f, dst |-> uniqueDst, how |-> how]

\* a removal whose failure is reported as a failure of the copy
MoveRemoveAsCopy(uniqueDst, rm) ==
  IF rm.err # "" THEN MoveResult("copy fallback failed", rm.fs, uniqueDst, "remove")
  ELSE MoveResult("", rm.fs, uniqueDst, "copy")

\* os.Remove of the original after the copy
MoveRemove(uniqueDst, rm) ==
  IF rm.err # "" THEN MoveResult("failed removing original", rm.fs, uniqueDst, "remove")
  ELSE MoveResult("", rm.fs, uniqueDst, "copy")

\* a fallback that removes the original whatever the copy returned
MoveCopyThenRemove(src, uniqueDst, fault, cp) ==
  MoveRemove(uniqueDst, Remove(cp.fs, src, fault = "remove"))

\* the copy fallback
MoveCopy(src, uniqueDst, fault, cp) ==
  IF cp.err # "" THEN MoveResult("copy fallback failed", cp.fs, uniqueDst, cp.err)
  ELSE MoveRemove(uniqueDst, Remove(cp.fs, src, fault = "remove"))

\* os.Rename, and what follows when it fails
MoveRename(f, src, uniqueDst, info, dryRun, fault, rn) ==
  IF rn.err = "" THEN MoveResult("", rn.fs, uniqueDst, "rename")
  ELSE MoveCopy(src, uniqueDst, fault,
                copyFilePreserve(f, src, uniqueDst, info, dryRun, fault))

MoveTo(f, src, uniqueDst, info, dryRun, fault) ==
  IF dryRun THEN MoveResult("", f, uniqueDst, "dryrun")
  ELSE MoveRename(f, src, uniqueDst, info, dryRun, fault,
                  Rename(f, src, uniqueDst, fault \in MoveFaults))

moveFile(f, src, dst, info, dryRun, fault) ==
  Only({MoveTo(f, src, uniqueDst, info, dryRun, fault) :
          uniqueDst \in {ensureUniquePath(f, dst)}})

(***************************************************************************)
(* The destination of a file.                                              *)
(***************************************************************************)
DirResult(err, dir, f) == [err |-> err, dir |-> dir, fs |-> f]

\* the scheme's directory: a scheme that is neither of the two leaves dir and
\* err at their zero values
BuildDir(outputFolder, modTime, cfg) ==
  IF cfg.FolderFormat = YearThenQuarters
  THEN buildQuarterFolder(outputFolder, modTime, cfg.Language)
  ELSE IF cfg.FolderFormat = DayThenHours
  THEN buildHourFolder(outputFolder, modTime)
  ELSE [err |-> "", dir |-> <<>>]

EnsureDir(dir, mk) ==
  IF mk.err # "" THEN DirResult("failed to create target directory", <<>>, mk.fs)
  ELSE DirResult("", dir, mk.fs)

\* a directory that is made in every mode
BuiltDirMade(f, cfg, mkFails, b) ==
  IF b.err # "" THEN DirResult("failed to build quarter folder", <<>>, f)
  ELSE EnsureDir(b.dir, MkdirAll(f, b.dir, mkFails))

BuiltDir(f, cfg, mkFails, b) ==
  IF b.err # "" THEN DirResult("failed to build quarter folder", <<>>, f)
  ELSE IF cfg.DryRun THEN DirResult("", b.dir, f)
  ELSE EnsureDir(b.dir, MkdirAll(f, b.dir, mkFails))

buildAndEnsureTargetDir(f, outputFolder, modTime, cfg, mkFails) ==
  BuiltDir(f, cfg, mkFails, BuildDir(outputFolder, modTime, cfg))

TargetIn(q, path, info, cfg) ==
  IF q.err # "" THEN [err |-> q.err, target |-> <<>>, fs |-> q.fs]
  ELSE IF ~cfg.PreserveStructure
       THEN [err |-> "", target |-> Join(q.dir, <<info.name>>), fs |-> q.fs]
  ELSE [err |-> "", target |-> Join(q.dir, Rel(cfg.InputFolder, path)), fs |-> q.fs]

determineTargetPath(f, path, info, cfg, fault) ==
  Only({TargetIn(q, path, info, cfg) :
          q \in {buildAndEnsureTargetDir(f, cfg.OutputFolder, info.mtime, cfg,
                                         fault = "mkdirT")}})

\* the same with every error dropped
UnsafeTargetIn(q, path, info, cfg) ==
  IF ~cfg.PreserveStructure
  THEN [target |-> Join(q.dir, <<info.name>>), fs |-> q.fs]
  ELSE [target |-> Join(q.dir, Rel(cfg.InputFolder, path)), fs |-> q.fs]

determineTargetPathUnsafe(f, path, info, cfg, fault) ==
  Only({UnsafeTargetIn(q, path, info, cfg) :
          q \in {buildAndEnsureTargetDir(f, cfg.OutputFolder, info.mtime, cfg,
                                         fault = "mkdirU")}})

EnsuredTarget(mk) ==
  IF mk.err # "" THEN [err |-> "failed to create target directory", fs |-> mk.fs]
  ELSE [err |-> "", fs |-> mk.fs]

ensureTargetDirectory(f, targetPath, dryRun, fault) ==
  IF dryRun THEN [err |-> "", fs |-> f]
  ELSE EnsuredTarget(MkdirAll(f, Dir(targetPath), fault = "mkdirE"))

(***************************************************************************)
(* The skip filters.                                                       *)
(***************************************************************************)
isPathAlreadyRelocated(path, targetPath) == Abs(path) = Abs(targetPath)

\* a comparison that never finds the log file
isPathTheLoggerNever(path, cfg) == FALSE

isPathTheLogger(path, cfg) == Abs(path) = Abs(cfg.Logger)

\* a filter's result: whether to skip, the filter and the message it logs,
\* the filters called so far (asked) and the destination the first of them
\* compared the path with (cmp)
SkipResult(skip, by, msg, f) ==
  [skip |-> skip, by |-> by, msg |-> msg, fs |-> f, asked |-> <<by>>, cmp |-> <<>>]

RelocatedIn(path, u) ==
  [SkipResult(isPathAlreadyRelocated(path, u.target), "relocated", "skipping_file", u.fs)
     EXCEPT !.cmp = u.target]

isPathAlreadyRelocatedFilter(f, path, info, cfg, fault) ==
  RelocatedIn(path, determineTargetPathUnsafe(f, path, info, cfg, fault))

isLoggerPathFilter(f, path, info, cfg) ==
  SkipResult(isPathTheLogger(path, cfg), "logger", "skipping_file", f)

\* a cut-off that compares calendar days
isFilterByDay(f, path, info, cfg) ==
  IF cfg.Before = <<>> THEN SkipResult(FALSE, "cutoff", "after_before_date", f)
  ELSE SkipResult(After([info.mtime EXCEPT !.hour = 0], ParseDate(cfg.Before[1])),
                  "cutoff", "after_before_date", f)

\* cfg.Before is <<>> (nil) or <<date>>, a date that validateDate let pass
isFilterByBeforeConfiguration(f, path, info, cfg) ==
  IF cfg.Before = <<>> THEN SkipResult(FALSE, "cutoff", "after_before_date", f)
  ELSE SkipResult(After(info.mtime, ParseDate(cfg.Before[1])),
                  "cutoff", "after_before_date", f)

\* the filters in their order: the first that holds decides
After3(first, r) == [r EXCEPT !.asked = first.asked \o @, !.cmp = first.cmp]

SkipThird(r) == IF r.skip THEN r ELSE [SkipResult(FALSE, "", "", r.fs) EXCEPT !.asked = r.asked]

\* a second filter that lets the third one decide first
SkipSecondLast(r, path, info, cfg) ==
  IF isFilterByBeforeConfiguration(r.fs, path, info, cfg).skip
  THEN After3(r, isFilterByBeforeConfiguration(r.fs, path, info, cfg))
  ELSE r

SkipSecond(r, path, info, cfg) ==
  IF r.skip THEN r
  ELSE After3(r, SkipThird(isFilterByBeforeConfiguration(r.fs, path, info, cfg)))

SkipFirst(r, path, info, cfg) ==
  IF r.skip THEN r
  ELSE After3(r, SkipSecond(isLoggerPathFilter(r.fs, path, info, cfg), path, info, cfg))

applySkipFilters(f, path, info, cfg, fault) ==
  Only({SkipFirst(r, path, info, cfg) :
          r \in {isPathAlreadyRelocatedFilter(f, path, info, cfg, fault)}})

(***************************************************************************)
(* The walk function of organizeFiles for a regular file.  The result      *)
(* holds the file system it leaves, the error it returns to filepath.Walk, *)
(* the lines it logs and a record of the visit.                            *)
(***************************************************************************)
LogLine(key, src, dst) == [key |-> key, src |-> src, dst |-> dst]

\* the entry at p, if there is one
At(f, p) == IF Exists(f, p) THEN <<f[p]>> ELSE <<>>

\* the paths at which f and g differ
Touched(f, g) == {q \in DOMAIN f \cup DOMAIN g : At(f, q) # At(g, q)}

\* the record of a visit: what the walk function was called with, what it
\* decided (outcome, by, err, raw: the destination before collisions, dst:
\* the final one, how: the way of the transfer), the paths that existed when
\* moveFile was called (pre), the source before and the source and the
\* destination after it, the paths the visit changed, and the filters that
\* were called with the destination the first one compared with
Visit(f, walked, info, fault, outcome, by, err, raw, dst, how, before, after) ==
  [walked |-> walked, path |-> TrimSpace(walked), id |-> info.id, mtime |-> info.mtime,
   fault |-> fault, outcome |-> outcome, by |-> by, err |-> err,
   raw |-> raw, dst |-> dst, how |-> how,
   pre |-> DOMAIN before,
   srcBefore |-> At(before, TrimSpace(walked)),
   srcAfter |-> At(after, TrimSpace(walked)),
   dstAfter |-> At(after, dst),
   touched |-> Touched(f, after),
   asked |-> <<>>, cmp |-> <<>>]

WalkResult(f, err, lines, visit) == [fs |-> f, err |-> err, log |-> lines, visit |-> visit]

\* moveFile's outcome: logged, and an error returned to the walk
WalkMoved(f, walked, info, cfg, fault, target, before, mv) ==
  IF mv.err # ""
  THEN WalkResult(mv.fs, mv.err,
                  <<LogLine("rename_failed", TrimSpace(walked), mv.dst),
                    LogLine("move_error", TrimSpace(walked), target)>>,
                  Visit(f, walked, info, fault, "failed", "", mv.err,
                        target, mv.dst, mv.how, before, mv.fs))
  ELSE WalkResult(mv.fs, "",
                  IF cfg.DryRun
                  THEN <<LogLine("dry_run_would_move", TrimSpace(walked), mv.dst)>>
                  ELSE IF mv.how = "copy"
                  THEN <<LogLine("rename_failed", TrimSpace(walked), mv.dst),
                         LogLine("moved_file", TrimSpace(walked), target)>>
                  ELSE <<LogLine("moved_file", TrimSpace(walked), target)>>,
                  Visit(f, walked, info, fault, "moved", "", "",
                        target, mv.dst, mv.how, before, mv.fs))

WalkMkdir(f, walked, info, cfg, fault, target, mk) ==
  IF mk.err # ""
  THEN WalkResult(mk.fs, mk.err, <<>>,
                  Visit(f, walked, info, fault, "failed", "", mk.err,
                        target, <<>>, "", mk.fs, mk.fs))
  ELSE Only({WalkMoved(f, walked, info, cfg, fault, target, mk.fs, mv) :
               mv \in {moveFile(mk.fs, TrimSpace(walked), target, info, cfg.DryRun, fault)}})

WalkTarget(f, walked, info, cfg, fault, tp) ==
  IF tp.err # ""
  THEN WalkResult(tp.fs, tp.err, <<>>,
                  Visit(f, walked, info, fault, "failed", "", tp.err,
                        <<>>, <<>>, "", tp.fs, tp.fs))
  ELSE Only({WalkMkdir(f, walked, info, cfg, fault, tp.target, mk) :
               mk \in {ensureTargetDirectory(tp.fs, tp.target, cfg.DryRun, fault)}})

\* the visit's record of the filters that were called
Asked(r, sk) == [r EXCEPT !.visit.asked = sk.asked, !.visit.cmp = sk.cmp]

WalkSkip(f, walked, info, cfg, fault, sk) ==
  IF sk.skip
  THEN Asked(WalkResult(sk.fs, "", <<LogLine(sk.msg, TrimSpace(walked), <<>>)>>,
                        Visit(f, walked, info, fault, "skipped", sk.by, "",
                              <<>>, <<>>, "", sk.fs, sk.fs)),
             sk)
  ELSE Asked(Only({WalkTarget(f, walked, info, cfg, fault, tp) :
                      tp \in {determineTargetPath(sk.fs, TrimSpace(walked), info, cfg,
                                                  fault)}}),
             sk)

WalkFunc(f, walked, info, cfg, fault) ==
  Only({WalkSkip(f, walked, info, cfg, fault, sk) :
          sk \in {applySkipFilters(f, TrimSpace(walked), info, cfg, fault)}})

(***************************************************************************)
(* The log file.                                                           *)
(***************************************************************************)
\* ".organizer_<timestamp>.log"; the timestamp is the clock's second
LogName(ts) ==
  <<".", "o", "r", "g", "a", "n", "i", "z", "e", "r", "_">> \o Itoa(ts)
    \o <<".", "l", "o", "g">>

LogId(ts) == 100 + ts

\* os.OpenFile with O_CREATE|O_APPEND|O_WRONLY: an existing file is kept
setupLogger(f, config, ts) ==
  LET logFilename == Join(config.OutputFolder, <<LogName(ts)>>)
  IN IF IsDirAt(f, logFilename) \/ ~ParentOk(f, logFilename)
     THEN [err |-> "failed to open log file", config |-> config, fs |-> f]
     ELSE [err |-> "",
           config |-> [config EXCEPT !.Logger = logFilename],
           fs |-> IF Exists(f, logFilename) THEN f
                  ELSE Put(f, logFilename, FileEntry(LogId(ts), TRUE, NowTime))]

checkFolderExists(f, folderPath) ==
  IF ~Exists(f, folderPath) THEN "folder does not exist"
  ELSE IF ~IsDirAt(f, folderPath) THEN "not a directory"
  ELSE ""

(***************************************************************************)
(* The trees and configurations the model starts from.                     *)
(***************************************************************************)
NIn == <<"i", "n">>
NOut == <<"o", "u", "t">>
NA == <<"a">>
NB == <<"b">>
N1t == <<"1", ".", "t">>
Nxt == <<"x", ".", "t">>
NxtSp == <<"x", ".", "t", " ">>
NSp == <<" ">>

InputRoot == <<NIn>>

\* a day of the first quarter, the cut-off day at midnight and at 10 o'clock,
\* and the afternoon of the day after it
Ta == Time(2024, 3, 15, 10)
Tb == Time(2024, 6, 30, 0)
Tc == Time(2024, 6, 30, 10)
Td == Time(2024, 7, 1, 14)

CutoffDate == <<"2", "0", "2", "4", "-", "0", "6", "-", "3", "0">>

\* the files an input tree is made of: in/1.t, in/a/x.t, in/b/x.t, in/a/"x.t "
Candidate(i, variant) ==
  CASE i = 1 -> [path |-> <<NIn, N1t>>, mtime |-> IF variant = 1 THEN Tc ELSE Tb]
    [] i = 2 -> [path |-> <<NIn, NA, Nxt>>, mtime |-> Ta]
    [] i = 3 -> [path |-> <<NIn, NB, Nxt>>, mtime |-> IF variant = 1 THEN Ta ELSE Td]
    [] OTHER -> [path |-> <<NIn, NA, NxtSp>>, mtime |-> Ta]

Selections == {{}, {1}, {1, 2}, {2, 3}, {2, 4}}

\* the k-th name the collision resolver gives x.t
PreName(k) == IF k = 0 THEN Nxt ELSE <<"x", "(">> \o Itoa(k) \o <<")", ".", "t">>

PreTime(k) == IF k = 0 THEN Ta ELSE IF k = 1 THEN Tb ELSE Td

EmptyFs == [q \in {} |-> DirEntry]

\* where in/a/x.t of time Ta is to go under configuration c, before collisions
PreDir(c) ==
  LET d == buildAndEnsureTargetDir(EmptyFs, c.OutputFolder, Ta,
                                   [c EXCEPT !.DryRun = TRUE], FALSE).dir
  IN IF c.PreserveStructure THEN Join(d, <<NA>>) ELSE d

WithDirs(f, p) ==
  [q \in DOMAIN f \cup Prefixes(Dir(p)) |-> IF q \in DOMAIN f THEN f[q] ELSE DirEntry]

RECURSIVE AddFiles(_, _)
AddFiles(f, S) ==
  IF S = {} THEN f
  ELSE LET e == CHOOSE x \in S : TRUE
       IN AddFiles(Put(WithDirs(f, e.path), e.path, e.entry), S \ {e})

\* the tree of selection sel with npre files already at the raw destination
MakeFs(c, sel, variant, npre) ==
  AddFiles([q \in {InputRoot} |-> DirEntry],
           {[path |-> Candidate(i, variant).path,
             entry |-> FileEntry(i, TRUE, Candidate(i, variant).mtime)] : i \in sel}
           \cup
           {[path |-> Join(PreDir(c), <<PreName(k)>>),
             entry |-> FileEntry(10 + k, TRUE, PreTime(k))] : k \in 0..(npre - 1)})

\* the command lines of the runs on the larger trees
ArgLines ==
  [Input : {InputRoot},
   Output : {<<>>, <<NIn, NOut>>, <<NOut>>},
   Lang : {"", "es"},
   PreserveStructure : BOOLEAN,
   Before : {<<>>, <<CutoffDate>>},
   NoDryRun : {<<>>, <<TRUE>>},
   FolderFormat : {<<>>, <<FormatDayHours>>, <<FormatHalfYears>>}]

\* --input and nothing else
PlainArgs ==
  [Input |-> InputRoot, Output |-> <<>>, Lang |-> "", PreserveStructure |-> FALSE,
   Before |-> <<>>, NoDryRun |-> <<>>, FolderFormat |-> <<>>]

\* a date with a month the calendar does not have
BadMonthDate == <<"2", "0", "2", "4", "-", "1", "3", "-", "0", "1">>

\* strings that are no date of the layout 2006-01-02
BadDates ==
  {<<>>, BadMonthDate, <<"2", "0", "2", "4", "-", "6", "-", "3", "0">>, <<"3", "0", "-", "0", "6", "-", "2", "0", "2", "4">>, <<"2", "0", "2", "3", "-", "0", "2", "-", "2", "9">>, <<"2", "0", "2", "4", "-", "0", "6", "-", "3", "0", " ">>, <<"2", "0", "2", "4", "-", "0", "6", "-", "3", "1">>}

\* strings that are no tag of a scheme
BadTags == {"", "Half-Years", "YEAR-THEN-QUARTERS", "quarters", "año-luego-cuartos "}

\* further command lines, run on the smaller trees: options given with the
\* value they have by default, the other spellings of the tags, and the
\* lines parseArgs does not take
MoreArgLines ==
  {[PlainArgs EXCEPT !.Output = InputRoot],
   [PlainArgs EXCEPT !.Lang = "en"],
   [PlainArgs EXCEPT !.NoDryRun = <<FALSE>>],
   [PlainArgs EXCEPT !.Input = <<NSp>>],
   [PlainArgs EXCEPT !.Input = <<>>],
   [PlainArgs EXCEPT !.Input = <<>>, !.Output = <<NOut>>]}
  \cup {[PlainArgs EXCEPT !.FolderFormat = <<tag>>] :
          tag \in {FormatYearQuarters, SpanishFormatYearQuarters, SpanishFormatDayHours,
                   SpanishHalfYears} \cup BadTags}
  \cup {[PlainArgs EXCEPT !.Before = <<date>>] : date \in BadDates}
  \cup {[PlainArgs EXCEPT !.Output = <<NOut>>, !.Before = <<date>>,
                          !.FolderFormat = <<tag>>] :
          date \in {CutoffDate, BadMonthDate}, tag \in {FormatHalfYears, "Half-Years"}}

\* the state of the input root when the program starts
RootKinds == {"dir", "none", "file"}

(***************************************************************************)
(* The state.                                                              *)
(***************************************************************************)
VARIABLES
  fs,      \* the file system
  cfg,     \* the FilesMoveConfiguration of the running process
  pc,      \* where main is: "args", "main", "logger", "check", "walk", "exit", "fatal"
  stack,   \* filepath.Walk: the entries still to visit, the next one first
  log,     \* the lines the process has logged
  visits,  \* one record for each regular file the walk function was called for
  prev,    \* the configuration and the visits of the process before this one
  fs0,     \* the file system when the walk started
  run,     \* the number of the process: 1, then 2
  faults,  \* the visits so far in which a system call failed
  clock,   \* the second the process was started in
  args,    \* the command line of the process
  call,    \* SpecFn: the calls made of the partition functions, with their results
  logFile  \* the handle setupLogger returns: "none", "open" or "closed"

vars ==
  <<fs, cfg, pc, stack, log, visits, prev, fs0, run, faults, clock, args, call, logFile>>

\* a command line, a tree under the input root (or no input root, or a file
\* in its place) and files already at the destination of x.t; these are there
\* only when x.t is
Init ==
  \E a \in ArgLines \cup MoreArgLines, sel \in Selections, variant \in {1, 2},
     npre \in 0..MaxPre, root \in RootKinds :
    /\ root = "dir" \/ (sel = {} /\ npre = 0)
    /\ variant = 2 => sel \cap {1, 3} # {}
    /\ npre > 0 => 2 \in sel
    /\ a.Lang = "es" =>
         (a.Output = <<NOut>> /\ a.FolderFormat = <<>> /\ a.Before = <<>>)
    /\ (a \in ArgLines /\ a.Before # <<>>) => a.FolderFormat = <<>>
    /\ a \notin ArgLines => (sel \in {{}, {1}} /\ npre = 0 /\ variant = 1)
    /\ root = "file" => a.Output \in {<<>>, <<NOut>>}
    /\ args = a
    /\ cfg = ZeroConfig
    /\ fs = IF root = "dir" THEN MakeFs(parseArgs(a).config, sel, variant, npre)
            ELSE IF root = "file" THEN [q \in {InputRoot} |-> FileEntry(1, TRUE, Ta)]
            ELSE EmptyFs
    /\ pc = "args"
    /\ stack = <<>>
    /\ log = <<>>
    /\ visits = <<>>
    /\ prev = <<>>
    /\ fs0 = EmptyFs
    /\ run = 1
    /\ faults = 0
    /\ clock = 1
    /\ call = <<>>
    /\ logFile = "none"

(***************************************************************************)
(* main: the output folder, the log file, the check of the input folder.   *)
(***************************************************************************)
\* log.Fatalf: the line is logged and os.Exit(1) ends the process at once;
\* deferred calls do not run
Fatal(line) ==
  /\ pc' = "fatal"
  /\ log' = Append(log, line)
  /\ stack' = <<>>

\* parseArgs: an error ends the process before anything else is done
MainParseArgs ==
  /\ pc = "args"
  /\ cfg' = parseArgs(args).config
  /\ IF parseArgs(args).err # ""
     THEN Fatal(LogLine("error_parsing_config", <<>>, <<>>))
     ELSE pc' = "main" /\ UNCHANGED <<log, stack>>
  /\ UNCHANGED <<fs, visits, prev, fs0, run, faults, clock, args, call, logFile>>

\* os.MkdirAll(cfg.OutputFolder)
MainMkdirOutput ==
  /\ pc = "main"
  /\ LET mk == MkdirAll(fs, cfg.OutputFolder, FALSE)
     IN /\ fs' = mk.fs
        /\ IF mk.err # ""
           THEN Fatal(LogLine("failed_to_create_output_folder", cfg.OutputFolder, <<>>))
           ELSE pc' = "logger" /\ UNCHANGED <<log, stack>>
  /\ UNCHANGED <<cfg, visits, prev, fs0, run, faults, clock, args, call, logFile>>

MainSetupLogger ==
  /\ pc = "logger"
  /\ LET r == setupLogger(fs, cfg, clock)
     IN /\ fs' = r.fs
        /\ cfg' = r.config
        /\ logFile' = IF r.err # "" THEN logFile ELSE "open"
        /\ IF r.err # ""
           THEN Fatal(LogLine("could_not_set_up_logger", cfg.OutputFolder, <<>>))
           ELSE /\ pc' = "check"
                /\ log' = log \o <<LogLine("start_organizer", <<>>, <<>>),
                                   LogLine("input_folder", cfg.InputFolder, <<>>),
                                   LogLine("output_folder", cfg.OutputFolder, <<>>)>>
                /\ UNCHANGED stack
  /\ UNCHANGED <<visits, prev, fs0, run, faults, clock, args, call>>

\* checkFolderExists(cfg.InputFolder), then organizeFiles' call of filepath.Walk
MainCheckInput ==
  /\ pc = "check"
  /\ IF checkFolderExists(fs, cfg.InputFolder) # ""
     THEN Fatal(LogLine("input_folder_invalid", cfg.InputFolder, <<>>)) /\ UNCHANGED fs0
     ELSE /\ pc' = "walk"
          /\ stack' = <<cfg.InputFolder>>
          /\ fs0' = fs
          /\ UNCHANGED log
  /\ UNCHANGED <<fs, cfg, visits, prev, run, faults, clock, args, call, logFile>>

(***************************************************************************)
(* filepath.Walk: one action for each call of the walk function.           *)
(***************************************************************************)
Names(f, dir) == {Base(q) : q \in {x \in DOMAIN f : x # <<>> /\ Dir(x) = dir}}

ChildPaths(f, dir) ==
  LET names == SortNames(Names(f, dir))
  IN [i \in 1..Len(names) |-> Join(dir, <<names[i]>>)]

\* a walk function that returned the error it was handed: filepath.Walk
\* would end there and main would end the process
WalkLstatErrorReturned ==
  /\ pc = "walk" /\ stack # <<>>
  /\ \/ ~Exists(fs, Head(stack))
     \/ IsFileAt(fs, Head(stack)) /\ run = 1 /\ faults < MaxFaults
  /\ faults' = IF Exists(fs, Head(stack)) THEN faults + 1 ELSE faults
  /\ log' = Append(log, LogLine("error_organizing", Head(stack), <<>>))
  /\ stack' = <<>>
  /\ pc' = "fatal"
  /\ UNCHANGED <<fs, cfg, visits, prev, fs0, run, clock, args, call, logFile>>

\* lstat of the entry fails: the walk function logs the error and returns nil
WalkLstatError ==
  /\ pc = "walk" /\ stack # <<>>
  /\ \/ ~Exists(fs, Head(stack))
     \/ IsFileAt(fs, Head(stack)) /\ run = 1 /\ faults < MaxFaults
  /\ faults' = IF Exists(fs, Head(stack)) THEN faults + 1 ELSE faults
  /\ log' = Append(log, LogLine("error_organizing", Head(stack), <<>>))
  /\ stack' = Tail(stack)
  /\ UNCHANGED <<fs, cfg, pc, visits, prev, fs0, run, clock, args, call, logFile>>

\* a directory whose names cannot be read: logged, and the walk leaves it out
WalkReadDirError ==
  /\ pc = "walk" /\ stack # <<>>
  /\ IsDirAt(fs, Head(stack))
  /\ run = 1 /\ faults < MaxFaults
  /\ faults' = faults + 1
  /\ log' = Append(log, LogLine("error_organizing", Head(stack), <<>>))
  /\ stack' = Tail(stack)
  /\ UNCHANGED <<fs, cfg, pc, visits, prev, fs0, run, clock, args, call, logFile>>

\* a walk that does not go into directories
WalkDirSkipped ==
  /\ pc = "walk" /\ stack # <<>>
  /\ IsDirAt(fs, Head(stack))
  /\ stack' = Tail(stack)
  /\ UNCHANGED <<fs, cfg, pc, log, visits, prev, fs0, run, faults, clock, args, call, logFile>>

\* a directory: the walk function returns nil and the walk goes through its
\* names in sorted order
WalkDir ==
  /\ pc = "walk" /\ stack # <<>>
  /\ IsDirAt(fs, Head(stack))
  /\ stack' = ChildPaths(fs, Head(stack)) \o Tail(stack)
  /\ UNCHANGED <<fs, cfg, pc, log, visits, prev, fs0, run, faults, clock, args, call, logFile>>

\* the walk function has returned r for the entry the walk is at
WalkReturn(r) ==
  /\ fs' = r.fs
  /\ visits' = Append(visits, r.visit)
  /\ IF r.err # ""
     THEN /\ pc' = "fatal"
          /\ stack' = <<>>
          /\ log' = log \o r.log \o <<LogLine("error_organizing", r.visit.path, <<>>)>>
     ELSE /\ pc' = "walk"
          /\ stack' = Tail(stack)
          /\ log' = log \o r.log

WalkInfo(walked) ==
  [name |-> Base(walked), mtime |-> fs[walked].mtime, id |-> fs[walked].id]

\* a failing system call that the visit does not come to is no fault
Felt(fault, r, quiet) == [r EXCEPT !.visit.fault = None] # quiet

\* a regular file: the walk function relocates it; an error it returns ends
\* the walk, and main ends the process with log.Fatalf
WalkFile(fault) ==
  /\ pc = "walk" /\ stack # <<>>
  /\ IsFileAt(fs, Head(stack))
  /\ fault # None => (run = 1 /\ faults < MaxFaults /\ ~cfg.DryRun)
  /\ \E r \in {WalkFunc(fs, Head(stack), WalkInfo(Head(stack)), cfg, fault)} :
       /\ fault # None =>
            Felt(fault, r, WalkFunc(fs, Head(stack), WalkInfo(Head(stack)), cfg, None))
       /\ WalkReturn(r)
  /\ faults' = IF fault # None THEN faults + 1 ELSE faults
  /\ UNCHANGED <<cfg, prev, fs0, run, clock, args, call, logFile>>

\* the walk is over: main logs the end and returns, and the deferred
\* logFile.Close() runs
WalkDone ==
  /\ pc = "walk" /\ stack = <<>>
  /\ pc' = "exit"
  /\ logFile' = "closed"
  /\ log' = log \o <<LogLine("file_org_complete", <<>>, <<>>), LogLine("finished", <<>>, <<>>)>>
  /\ UNCHANGED <<fs, cfg, stack, visits, prev, fs0, run, faults, clock, args, call>>

\* after a first process that met no failing system call, the user starts
\* the program again on the same tree with the same arguments and
\* --no-dry-run: after a dry run in the same second, after a live run in a
\* later one.  The second process meets no failing system call either
Rerun(tick) ==
  /\ pc \in {"exit", "fatal"}
  /\ run = 1
  /\ faults = 0
  /\ tick = IF cfg.DryRun THEN 0 ELSE 1
  /\ run' = run + 1
  /\ clock' = clock + tick
  /\ prev' = <<[cfg |-> cfg, visits |-> visits, pc |-> pc, faults |-> faults, fs0 |-> fs0]>>
  /\ args' = [args EXCEPT !.NoDryRun = <<TRUE>>]
  /\ cfg' = ZeroConfig
  /\ pc' = "args"
  /\ log' = <<>>
  /\ visits' = <<>>
  /\ fs0' = EmptyFs
  /\ logFile' = "none"
  /\ UNCHANGED <<fs, stack, faults, call>>

Next ==
  \/ MainParseArgs
  \/ MainMkdirOutput
  \/ MainSetupLogger
  \/ MainCheckInput
  \/ WalkLstatError
  \/ WalkReadDirError
  \/ WalkDir
  \/ \E fault \in Faults \cup {None} : WalkFile(fault)
  \/ WalkDone
  \/ \E tick \in {0, 1} : Rerun(tick)

Spec == Init /\ [][Next]_vars

\* a process that can take a step takes one: main and the walk are one
\* sequential thread that nothing else holds back.  Starting the program a
\* second time is the user's choice and has no fairness
Step ==
  \/ MainParseArgs
  \/ MainMkdirOutput
  \/ MainSetupLogger
  \/ MainCheckInput
  \/ WalkLstatError
  \/ WalkReadDirError
  \/ WalkDir
  \/ \E fault \in Faults \cup {None} : WalkFile(fault)
  \/ WalkDone

SpecLive == Spec /\ WF_vars(Step)

(***************************************************************************)
(* localize.go: the messages of the log, by key and language.  A text is   *)
(* the sequence of its pieces: the format string, and for a key outside    *)
(* the table the fixed text followed by the key.                           *)
(***************************************************************************)
MessageKeys ==
  {"start_organizer", "input_folder", "output_folder", "input_folder_invalid",
   "error_organizing", "file_org_complete", "finished", "skipping_file",
   "move_error", "moved_file"}

MessagesEn(key) ==
  CASE key = "start_organizer" -> "=== Started File Organizer at %s ==="
    [] key = "input_folder" -> "Input folder: %s"
    [] key = "output_folder" -> "Output folder: %s"
    [] key = "input_folder_invalid" -> "Input folder check failed"
    [] key = "error_organizing" -> "Error organizing files"
    [] key = "file_org_complete" -> "File organization complete."
    [] key = "finished" -> "=== Finished at %s ==="
    [] key = "skipping_file" -> "Skipping file already in output folder: %s"
    [] key = "move_error" -> "Error moving file %q to %q: %v"
    [] key = "moved_file" -> "Moved: %q => %q"

MessagesEs(key) ==
  CASE key = "start_organizer" -> "=== Iniciando el organizador de archivos en %s ==="
    [] key = "input_folder" -> "Carpeta de entrada: %s"
    [] key = "output_folder" -> "Carpeta de salida: %s"
    [] key = "input_folder_invalid" -> "Error al verificar la carpeta de entrada"
    [] key = "error_organizing" -> "Error organizando archivos"
    [] key = "file_org_complete" -> "Organización de archivos completa."
    [] key = "finished" -> "=== Finalizado a las %s ==="
    [] key = "skipping_file" -> "Saltando archivo, ya se encuentra en carpeta de salida: %s"
    [] key = "move_error" -> "Error al mover archivo %q a %q: %v"
    [] key = "moved_file" -> "Movido: %q => %q"

\* the map messages[key]: the languages that have an entry
MessageLangs == {"en", "es"}

\* the English text whatever the language
locMsgEnglish(key, lang) ==
  IF key \in MessageKeys THEN <<MessagesEn(key)>>
  ELSE <<"Missing translation for key=", key>>

locMsg(key, lang) ==
  IF key \in MessageKeys
  THEN IF lang \in MessageLangs
       THEN <<IF lang = "es" THEN MessagesEs(key) ELSE MessagesEn(key)>>
       ELSE <<MessagesEn(key)>>
  ELSE <<"Missing translation for key=", key>>

(***************************************************************************)
(* The functions of quarter.go and the partitioner of the walk, called on  *)
(* their own: a second specification in which no process runs and each     *)
(* step is one call, its arguments taken from the sets below.  call holds  *)
(* the call and, for a scheme's directory asked a second time with the     *)
(* same root, the second call before the first.                            *)
(***************************************************************************)
FnYears == {1970, 2024}
FnDays == {1, 15}
FnHours == {0, 1, 11, 12, 13, 23}
FnTimes == {Time(y, m, d, h) : y \in FnYears, m \in 1..12, d \in FnDays, h \in FnHours}
\* time stamps at the edges of what the functions accept: years up to 0,
\* months and days next to their ranges
FnEdgeYears == {0 - 1, 0, 2024}
FnEdgeMonths == {0, 1, 12, 13}
FnEdgeDays == {0, 1, 31, 32}
FnEdgeTimes ==
  {Time(y, m, d, 12) : y \in FnEdgeYears, m \in FnEdgeMonths, d \in FnEdgeDays}
FnRoots == {<<NOut>>, <<NIn, NOut>>}
FnLangs == {"en", "es", "fr"}
\* the languages and keys of the lookups made on their own
LookupLangs == {"en", "es", "fr", "", "EN", "es-MX"}
LookupKeys == MessageKeys \cup {"dry_run_would_move", ""}
LookupMonths == 1..12
LookupTables == {"quarterInfoForMonth", "semesterInfoForMonth"}

FnTags ==
  {FormatYearQuarters, FormatDayHours, FormatHalfYears, SpanishFormatYearQuarters,
   SpanishFormatDayHours, SpanishHalfYears} \cup BadTags

\* the functions that give a scheme's directory: the one of quarter.go and
\* the one the walk function uses
FnPartitioners == {"createFolderFormatDirectory", "buildAndEnsureTargetDir"}

Partition(fn, outputRoot, modTime, format, lang) ==
  IF fn = "createFolderFormatDirectory"
  THEN createFolderFormatDirectory(outputRoot, modTime,
                                   [ZeroConfig EXCEPT !.FolderFormat = format,
                                                      !.Language = lang])
  ELSE BuildDir(outputRoot, modTime,
                [ZeroConfig EXCEPT !.FolderFormat = format, !.Language = lang])

PartitionCall(fn, outputRoot, modTime, format, lang) ==
  [fn |-> fn, root |-> outputRoot, time |-> modTime, format |-> format, lang |-> lang,
   tag |-> "", out |-> Partition(fn, outputRoot, modTime, format, lang)]

TagCall(fn, format, tag, out) ==
  [fn |-> fn, root |-> <<>>, time |-> Time(1, 1, 1, 0), format |-> format, lang |-> "",
   tag |-> tag, out |-> out]

\* a lookup of a label or a message: the month in time, the key in tag
LookupCall(fn, month, key, lang) ==
  [fn |-> fn, root |-> <<>>, time |-> Time(1, month, 1, 0), format |-> YearThenQuarters,
   lang |-> lang, tag |-> key,
   out |-> IF fn = "locMsg" THEN [num |-> 0, label |-> locMsg(key, lang)]
           ELSE IF fn = "quarterInfoForMonth" THEN quarterInfoForMonth(month, lang)
           ELSE semesterInfoForMonth(month, lang)]

InitFn ==
  /\ fs = EmptyFs
  /\ cfg = ZeroConfig
  /\ pc = "calls"
  /\ stack = <<>>
  /\ log = <<>>
  /\ visits = <<>>
  /\ prev = <<>>
  /\ fs0 = EmptyFs
  /\ run = 1
  /\ faults = 0
  /\ clock = 1
  /\ args = PlainArgs
  /\ call = <<>>
  /\ logFile = "none"

Idle ==
  UNCHANGED <<fs, cfg, pc, stack, log, visits, prev, fs0, run, faults, clock, args, logFile>>

\* a scheme's directory is asked for
CallPartition(fn, outputRoot, modTime, format, lang) ==
  /\ pc = "calls" /\ call = <<>>
  /\ call' = <<PartitionCall(fn, outputRoot, modTime, format, lang)>>
  /\ Idle

\* the day-then-hours directory is asked for a second time stamp of the same
\* month, in any language
CallPartitionAgain(modTime, lang) ==
  /\ pc = "calls"
  /\ Len(call) = 1 /\ call[1].fn \in FnPartitioners /\ call[1].format = DayThenHours
  /\ call[1].time \in FnTimes
  /\ modTime.year = call[1].time.year /\ modTime.month = call[1].time.month
  /\ call' = <<PartitionCall(call[1].fn, call[1].root, modTime, DayThenHours, lang),
               call[1]>>
  /\ Idle

\* FolderFormat.String
CallString(format) ==
  /\ pc = "calls" /\ call = <<>>
  /\ call' = <<TagCall("String", format, "", stateName(format))>>
  /\ Idle

CallParseFolderFormat(tag) ==
  /\ pc = "calls" /\ call = <<>>
  /\ call' = <<TagCall("ParseFolderFormat", YearThenQuarters, tag, ParseFolderFormat(tag))>>
  /\ Idle

CallLabel(fn, month, lang) ==
  /\ pc = "calls" /\ call = <<>>
  /\ call' = <<LookupCall(fn, month, "", lang)>>
  /\ Idle

CallLocMsg(key, lang) ==
  /\ pc = "calls" /\ call = <<>>
  /\ call' = <<LookupCall("locMsg", 1, key, lang)>>
  /\ Idle

\* a call is made when none was made; a second one when one was made
NextFn ==
  \/ /\ call = <<>>
     /\ \E fn \in FnPartitioners, outputRoot \in FnRoots,
           modTime \in FnTimes \cup FnEdgeTimes,
           format \in FolderFormats, lang \in FnLangs :
          CallPartition(fn, outputRoot, modTime, format, lang)
  \/ /\ Len(call) = 1
     /\ \E modTime \in FnTimes, lang \in FnLangs : CallPartitionAgain(modTime, lang)
  \/ \E format \in FolderFormats : CallString(format)
  \/ \E tag \in FnTags : CallParseFolderFormat(tag)
  \/ \E fn \in LookupTables, month \in LookupMonths, lang \in LookupLangs :
       CallLabel(fn, month, lang)
  \/ \E key \in LookupKeys, lang \in LookupLangs : CallLocMsg(key, lang)

SpecFn == InitFn /\ [][NextFn]_vars

(***************************************************************************)
(* Properties.  They are stated on the visit records: Transferred(v) says   *)
(* that moveFile put the file of the visit at its destination.             *)
(***************************************************************************)
Visited == {visits[i] : i \in 1..Len(visits)}

Transferred(v) == v.outcome = "moved" /\ v.how \in {"rename", "copy"}

\* C1: in a live run no step overwrites or truncates a regular file that
\* exists: whatever a step leaves at a path that held a regular file is that
\* same file, so a transfer's destination is always a path that was free
NoFileReplaced ==
  \A p \in DOMAIN fs : (IsFileAt(fs, p) /\ Exists(fs', p)) => fs'[p] = fs[p]

C1_NoOverwrite == [][~cfg.DryRun => NoFileReplaced]_vars

\* a live transfer by the copy fallback whose raw destination was taken
C1_Witness ==
  /\ ~cfg.DryRun
  /\ \E v \in Visited :
       /\ Transferred(v) /\ v.how = "copy"
       /\ v.raw # v.dst /\ v.raw \in v.pre /\ v.dst \notin v.pre

\* moveFile was called in the visit, for a source that was there
MoveCalled(v) == v.how # "" /\ v.srcBefore # <<>>

\* the whole content of entry e is in the entry, if any, of the sequence at
WholeAt(at, e) == at # <<>> /\ at[1].kind = "file" /\ at[1].id = e.id /\ at[1].full

\* C2: when moveFile has returned, with nil or with any error, the complete
\* content of the source is at the source path or at the final destination,
\* and the source is gone only after a rename that succeeded or a fallback
\* copy that succeeded together with its timestamp update
C2_NoFileLost ==
  \A v \in Visited :
    (MoveCalled(v) /\ v.srcBefore[1].full) =>
      /\ WholeAt(v.srcAfter, v.srcBefore[1]) \/ WholeAt(v.dstAfter, v.srcBefore[1])
      /\ v.srcAfter = <<>> =>
           /\ v.how \in {"rename", "copy"}
           /\ WholeAt(v.dstAfter, v.srcBefore[1])
           /\ v.dstAfter[1].mtime = v.srcBefore[1].mtime

\* the copy broke off part-way: a partial destination, the source untouched
C2_Witness ==
  \E v \in Visited :
    /\ MoveCalled(v) /\ v.srcBefore[1].full
    /\ v.outcome = "failed" /\ v.fault = "copy"
    /\ v.dstAfter # <<>> /\ ~v.dstAfter[1].full
    /\ v.srcAfter = v.srcBefore

\* filepath.Walk has been called in this process
WalkBegun == pc \in {"walk", "exit"} \/ (pc = "fatal" /\ visits # <<>>)

\* C3: with dry-run enabled the walk changes nothing: from its start on the
\* file system is the one the walk started with, and no visit of a file
\* created, changed or removed any path
C3_DryRunNoMutation ==
  (cfg.DryRun /\ WalkBegun) =>
    /\ fs = fs0
    /\ \A v \in Visited : v.touched = {}

\* a finished dry run that reported a move into a directory that is not there
C3_Witness ==
  /\ cfg.DryRun /\ pc = "exit"
  /\ \E v \in Visited :
       /\ v.outcome = "moved" /\ v.how = "dryrun"
       /\ ~Exists(fs, Dir(v.dst))
       /\ Exists(fs, v.path)

\* the process before this one was live, so this one has its configuration
SecondLiveRun == run = 2 /\ prev # <<>> /\ ~prev[1].cfg.DryRun

PrevVisited == IF prev = <<>> THEN {} ELSE {prev[1].visits[i] : i \in 1..Len(prev[1].visits)}

\* v1 of the first process put a file at its destination, the file is still
\* there unchanged, and the second process was called for it in v2 with no
\* system call failing
SeenAgain(v1, v2) ==
  /\ Transferred(v1)
  /\ v2.walked = v1.dst /\ v2.path = v1.dst
  /\ v2.srcBefore = v1.dstAfter
  /\ v2.fault = None

\* C4: a file that a live run moved into its partition directory and that
\* was not changed since is, when the walk of a second run with the same
\* configuration reaches it, skipped as already relocated and left at its
\* path, for either setting of the preserve-structure flag
C4_RoundTrip ==
  SecondLiveRun =>
    \A v1 \in PrevVisited, v2 \in Visited :
      SeenAgain(v1, v2) =>
        /\ v2.outcome = "skipped" /\ v2.by = "relocated"
        /\ v2.srcAfter = v2.srcBefore

\* C5: a file whose relocation fails does not end the walk: after the
\* failure is logged the walk is still going on or has come to its end, with
\* the entries after the file still to be visited
C5_ErrorIsolation ==
  \A v \in Visited : v.outcome = "failed" => pc \in {"walk", "exit"}

Logged == {log[i] : i \in 1..Len(log)}

\* C6: once setupLogger has opened the log file of the process, the file
\* stays where it is with its content: no visit moves, copies or removes it,
\* a visit it is the source of skips it, and no line reports it as moved
C6_LogFileStays ==
  cfg.Logger # <<>> =>
    /\ IsFileAt(fs, cfg.Logger) /\ fs[cfg.Logger].id = LogId(clock)
    /\ \A v \in Visited :
         /\ cfg.Logger \notin v.touched
         /\ v.path = cfg.Logger => v.outcome = "skipped"
         /\ v.outcome = "moved" => v.dst # cfg.Logger
    /\ \A l \in Logged :
         l.key \in {"moved_file", "dry_run_would_move"} => l.src # cfg.Logger

\* a live run with the output root equal to the input root whose walk came to
\* the log file and went on to move another file
C6_Witness ==
  /\ ~cfg.DryRun /\ cfg.OutputFolder = cfg.InputFolder
  /\ \E v \in Visited : v.path = cfg.Logger /\ v.outcome = "skipped" /\ v.by = "logger"
  /\ \E v \in Visited : Transferred(v)

\* the visit came to the cut-off filter: neither filter before it skipped
CutoffAsked(v) == ~(v.outcome = "skipped" /\ v.by \in {"relocated", "logger"})

CutoffSkipped(v) == v.outcome = "skipped" /\ v.by = "cutoff"

\* the calendar day of t is later than the day d
DayLater(t, d) ==
  \/ t.year > d.year
  \/ t.year = d.year /\ t.month > d.month
  \/ t.year = d.year /\ t.month = d.month /\ t.day > d.day

\* the day D of the configured cut-off
CutoffDay == ParseDate(cfg.Before[1])

\* C7 as the claim states it: with a cut-off day D the filter skips a file
\* exactly when its modification time falls on a calendar day later than D,
\* and with no cut-off it never skips
C7_CutoffByDay ==
  \A v \in Visited :
    CutoffAsked(v) =>
      IF cfg.Before = <<>> THEN ~CutoffSkipped(v)
      ELSE CutoffSkipped(v) <=> DayLater(v.mtime, CutoffDay)

\* C7 as the code has it: the filter skips a file exactly when its
\* modification time is later than 00:00 UTC of the day D, so a file modified
\* on D after midnight is skipped too; with no cut-off it never skips
C7_CutoffByInstant ==
  \A v \in Visited :
    CutoffAsked(v) =>
      IF cfg.Before = <<>> THEN ~CutoffSkipped(v)
      ELSE CutoffSkipped(v) <=>
             (DayLater(v.mtime, CutoffDay) \/
                (~DayLater(v.mtime, CutoffDay) /\ ~DayLater(CutoffDay, v.mtime)
                   /\ v.mtime.hour > 0))

\* a walk that skipped the file of the cut-off day's 10 o'clock and let the
\* file of an earlier day pass
C7_Witness ==
  /\ cfg.Before = <<CutoffDate>>
  /\ \E v \in Visited : CutoffSkipped(v) /\ v.mtime = Tc
  /\ \E v \in Visited : CutoffAsked(v) /\ ~CutoffSkipped(v) /\ v.mtime = Ta

\* the (source, destination) pairs of the visits in V that moved a file or,
\* in a dry run, reported that they would
Moves(V) == {<<v.path, v.dst>> : v \in {w \in V : w.outcome = "moved"}}

\* a dry run that came to its end, and after it a live run with the same
\* arguments that started its walk on the same file system, met no failing
\* system call and is over
DryThenLive ==
  /\ run = 2 /\ prev # <<>>
  /\ prev[1].cfg.DryRun /\ prev[1].pc = "exit"
  /\ prev[1].fs0 = fs0
  /\ pc \in {"exit", "fatal"} /\ faults = 0

\* C8: the moves a dry run reports are the moves the live run performs from
\* the same file system state, also when several files have the same raw
\* destination
C8_DryLiveEquivalence == DryThenLive => Moves(PrevVisited) = Moves(Visited)

\* the position of the last dot of a name, 0 if it has none
LastDot(name) ==
  LET dots == {i \in 1..Len(name) : name[i] = "."}
  IN IF dots = {} THEN 0 ELSE CHOOSE i \in dots : \A j \in dots : j <= i

\* p with (k) put in before the last extension of its base name
Numbered(p, k) ==
  LET base == p[Len(p)]
      cut == IF LastDot(base) = 0 THEN Len(base) ELSE LastDot(base) - 1
  IN SubSeq(p, 1, Len(p) - 1)
       \o <<SubSeq(base, 1, cut) \o <<"(">> \o Itoa(k) \o <<")">>
              \o SubSeq(base, cut + 1, Len(base))>>

\* the candidates asked about: the source, the raw destination and the final
\* destination of every visit so far
Candidates ==
  UNION {{v.path, v.raw, v.dst} : v \in Visited} \ {<<>>}

\* r is what the claim says of candidate p on file system f
UniqueFor(f, p, r) ==
  /\ ~Exists(f, r)
  /\ ~Exists(f, p) => r = p
  /\ Exists(f, p) =>
       \E k \in 1..(Cardinality(DOMAIN f) + 1) :
         /\ r = Numbered(p, k)
         /\ \A j \in 1..(k - 1) : Exists(f, Numbered(p, j))

\* C9: ensureUniquePath returns a candidate that does not exist unchanged,
\* and otherwise the name with the smallest k >= 1 in brackets before the
\* last extension that does not exist; what it returns does not exist, and
\* asked again, about the candidate or about its own answer, it returns the
\* same path
C9_UniquePath ==
  /\ \A p \in Candidates :
       /\ UniqueFor(fs, p, ensureUniquePath(fs, p))
       /\ ensureUniquePath(fs, ensureUniquePath(fs, p)) = ensureUniquePath(fs, p)
  /\ \A v \in Visited :
       v.how # "" => (v.dst \notin v.pre /\ (v.raw \notin v.pre => v.dst = v.raw))

\* a file moved to the name with (2): its raw destination and the name with
\* (1) were both taken
C9_Witness ==
  \E v \in Visited :
    /\ Transferred(v)
    /\ v.raw \in v.pre /\ Numbered(v.raw, 1) \in v.pre
    /\ v.dst = Numbered(v.raw, 2)

\* C10: within one run no file is moved more than once, also when the output
\* root is the input root or lies inside it and the walk comes to the
\* directories it has moved files into; and what is moved is a regular file,
\* never a directory
C10_MovedOnce ==
  /\ \A i \in 1..Len(visits) : \A j \in 1..Len(visits) :
       (i < j /\ Transferred(visits[i]) /\ Transferred(visits[j])) =>
         visits[i].srcBefore[1].id # visits[j].srcBefore[1].id
  /\ \A v \in Visited : MoveCalled(v) => v.srcBefore[1].kind = "file"

\* the step in which filepath.Walk hands the walk function an error for the
\* entry it is at: the entry is gone or cannot be read, and no visit of a
\* file is made
TraversalError ==
  /\ pc = "walk" /\ stack # <<>>
  /\ visits' = visits
  /\ ~Exists(fs, Head(stack)) \/ faults' # faults

\* the lines the walk function logged for a traversal error: main's last
\* line before it ends the process has the same key
ErrorLines ==
  {i \in 1..Len(log) :
     /\ log[i].key = "error_organizing"
     /\ ~(i = Len(log) /\ pc = "fatal")}

\* C11: a traversal error on an entry is logged, the walk goes on with the
\* entries after it and the process does not end; the step changes nothing
\* in the file system, and the walk function is not called again for the
\* entry, so the error leads to no move of it
C11_TraversalErrorIsolated ==
  /\ [][TraversalError =>
          /\ log' = Append(log, LogLine("error_organizing", Head(stack), <<>>))
          /\ pc' = "walk" /\ stack' = Tail(stack)
          /\ fs' = fs]_vars
  /\ [](\A i \in ErrorLines : \A v \in Visited : v.walked # log[i].src)

\* a walk that logged a traversal error and after it moved a file
C11_Witness ==
  \E i \in ErrorLines : \E j \in (i + 1)..Len(log) : log[j].key = "moved_file"

\* the partition directory of the visit's file under the configured scheme
PartitionDir(v) == BuildDir(cfg.OutputFolder, v.mtime, cfg).dir

\* the names that lead from the directory root to the path p below it
Below(root, p) == SubSeq(p, Len(root) + 1, Len(p))

\* the raw destination the claim gives the file at path p
RawFor(v, p) ==
  PartitionDir(v) \o (IF cfg.PreserveStructure THEN Below(cfg.InputFolder, p)
                      ELSE <<p[Len(p)]>>)

\* C19: the raw destination of a file the walk is at is its partition
\* directory joined with the file's path relative to the input root when
\* preserve-structure is on, and with the file's base name alone when it is
\* off, in whatever sub-directory the file is
C19_RawDestination ==
  \A v \in Visited : v.raw # <<>> => v.raw = RawFor(v, v.walked)

\* the visit's moveFile succeeded through the copy fallback
CopiedOver(v) == v.outcome = "moved" /\ v.how = "copy"

\* C20: when moveFile succeeds through the copy fallback, the destination's
\* modification time and access time are the modification time the walk
\* function was handed for the file it classified
C20_TimesPreserved ==
  \A v \in Visited :
    CopiedOver(v) =>
      /\ v.dstAfter # <<>>
      /\ v.dstAfter[1].mtime = v.mtime
      /\ v.dstAfter[1].atime = v.mtime

\* a file modified on 2024-03-15 at 10 o'clock that the fallback copied in a
\* process running in 2025
C20_Witness ==
  \E v \in Visited :
    /\ CopiedOver(v) /\ v.fault = "rename"
    /\ v.mtime = Ta /\ v.mtime # NowTime
    /\ v.srcAfter = <<>>

\* the string sub occurs in the string str
Occurs(sub, str) ==
  \E i \in 1..(Len(str) - Len(sub) + 1) : SubSeq(str, i, i + Len(sub) - 1) = sub

\* a call for the directory of the scheme format in one of the two languages
\* that have labels
PartitionAsked(c, format) ==
  /\ c.fn \in FnPartitioners /\ c.format = format /\ c.lang \in {"en", "es"}
  /\ c.time.month \in 1..12

\* the number of the three-month group of month m
QuarterOf(m) == ((m - 1) \div 3) + 1

C13_HalfYearPath ==
  \A i \in 1..Len(call) :
    (PartitionAsked(call[i], HalfYears) /\ call[i].fn = "createFolderFormatDirectory") =>
      /\ call[i].out.err = ""
      /\ call[i].time.month <= 6 =>
           call[i].out.dir =
             call[i].root \o <<Itoa(call[i].time.year) \o <<"-">>
                                 \o SemesterTable(call[i].lang)[1]>>
      /\ call[i].time.month >= 7 =>
           call[i].out.dir =
             call[i].root \o <<Itoa(call[i].time.year) \o <<"-">>
                                 \o SemesterTable(call[i].lang)[2]>>

\* June 2024 in Spanish under out
C13_Witness ==
  /\ call # <<>>
  /\ PartitionAsked(call[1], HalfYears) /\ call[1].fn = "createFolderFormatDirectory"
  /\ call[1].time.month = 6 /\ call[1].lang = "es" /\ call[1].root = <<NOut>>
  /\ call[1].out.dir = <<NOut, <<"2", "0", "2", "4", "-", "E", "N", "E", "-", "F", "E", "B", "-", "M", "A", "R", "-", "A", "B", "R", "-", "M", "A", "Y", "-", "J", "U", "N">>>>

\* the day-then-hours directory was asked for twice with the same root
AskedTwice == Len(call) = 2 /\ call[1].format = DayThenHours

SameDate(t, u) == t.year = u.year /\ t.month = u.month /\ t.day = u.day

\* both before noon or both from noon on
SameBlock(t, u) == (t.hour < 12) <=> (u.hour < 12)

\* C14 as the claim states it: two time stamps of the same date and the same
\* 12-hour block get the same day-then-hours directory, in every language
C14_SameBlockSameDir ==
  AskedTwice =>
    ((SameDate(call[1].time, call[2].time) /\ SameBlock(call[1].time, call[2].time))
       => call[1].out.dir = call[2].out.dir)

\* C14 as the code has it: two time stamps get the same day-then-hours
\* directory exactly when they have the same date and the same hour of the
\* day, whatever the languages of the two calls
C14_SameHourSameDir ==
  AskedTwice =>
    /\ call[1].out.err = "" /\ call[2].out.err = ""
    /\ call[1].out.dir = call[2].out.dir <=>
         (SameDate(call[1].time, call[2].time) /\ call[1].time.hour = call[2].time.hour)

\* 15 March 2024, 11 o'clock, asked in English and in Spanish: one directory
C14_Witness ==
  /\ AskedTwice
  /\ call[1].time = Time(2024, 3, 15, 11) /\ call[2].time = call[1].time
  /\ call[1].lang = "es" /\ call[2].lang = "en"
  /\ call[1].out.dir = <<NOut, <<"2", "0", "2", "4", "-", "0", "3", "-", "1", "5">>, <<"1", "1", "A", "M">>>>
  /\ call[2].out.dir = call[1].out.dir

\* the Spanish spelling of the scheme's tag
SpanishTag(format) ==
  IF format = YearThenQuarters THEN "año-luego-cuartos"
  ELSE IF format = DayThenHours THEN "dia-luego-horas"
  ELSE "medios-años"

\* the tags of the schemes, canonical and Spanish
KnownTags ==
  {"year-then-quarters", "day-then-hours", "half-years",
   "año-luego-cuartos", "dia-luego-horas", "medios-años"}

\* C15: the tag String gives a scheme parses back to the scheme, the Spanish
\* spelling parses to the scheme of the canonical tag, and every other string
\* is rejected with an error
C15_TagsRoundTrip ==
  \A i \in 1..Len(call) :
    /\ call[i].fn = "String" =>
         /\ call[i].out \in KnownTags
         /\ ParseFolderFormat(call[i].out) = [err |-> "", format |-> call[i].format]
         /\ ParseFolderFormat(SpanishTag(call[i].format)) = ParseFolderFormat(call[i].out)
    /\ call[i].fn = "ParseFolderFormat" =>
         /\ call[i].out.err = "" <=> call[i].tag \in KnownTags
         /\ call[i].out.err = "" => call[i].tag \in {stateName(call[i].out.format),
                                                      SpanishTag(call[i].out.format)}

\* the Spanish tag of the half-years scheme was parsed
C15_Witness ==
  /\ call # <<>> /\ call[1].fn = "ParseFolderFormat"
  /\ call[1].tag = "medios-años"
  /\ call[1].out = [err |-> "", format |-> HalfYears]
  /\ stateName(call[1].out.format) = "half-years"

\* parseArgs has returned a configuration to main
Parsed == pc # "args" /\ \A l \in Logged : l.key # "error_parsing_config"

\* C16: the configuration parseArgs returns has the input folder as output
\* folder when no output was given, the language en when none was given,
\* the year-then-quarters scheme when no tag was given, no cut-off when none
\* was given, and DryRun true unless the no-dry-run option was given as true
C16_Defaults ==
  Parsed =>
    /\ cfg.InputFolder = args.Input
    /\ args.Output = <<>> => cfg.OutputFolder = args.Input
    /\ args.Lang = "" => cfg.Language = "en"
    /\ args.FolderFormat = <<>> => cfg.FolderFormat = YearThenQuarters
    /\ args.Before = <<>> => cfg.Before = <<>>
    /\ cfg.DryRun <=> args.NoDryRun # <<TRUE>>

\* a run with --input alone that came to its end as a dry run in English
\* with the year-then-quarters scheme, the output in the input folder
C16_Witness ==
  /\ Parsed /\ pc = "exit" /\ args = PlainArgs
  /\ cfg.OutputFolder = InputRoot /\ cfg.Language = "en" /\ cfg.DryRun
  /\ cfg.FolderFormat = YearThenQuarters /\ cfg.Before = <<>>
  /\ \E v \in Visited : v.how = "dryrun"

\* the command line is one of those the claim calls invalid: the input path
\* is the empty string, the cut-off is no date of the form YYYY-MM-DD, or
\* the scheme's tag is none of the six
Invalid(a) ==
  \/ a.Input = <<>>
  \/ a.Before # <<>> /\ a.Before[1] \in BadDates
  \/ a.FolderFormat # <<>> /\ a.FolderFormat[1] \notin KnownTags

RootUnusable ==
  /\ pc \in {"args", "main", "logger", "check"}
  /\ ~Invalid(args)
  /\ ~IsDirAt(fs, args.Input)

\* C18: a process that starts with a valid command line and an input root
\* that is missing or no directory never comes to the walk, whatever the
\* output folder is: no step before the walk makes the input root a
\* directory, the check of the input folder does not pass, and the step that
\* ends the process logs the input folder error
C18_InputRootChecked ==
  [][RootUnusable =>
       /\ ~IsDirAt(fs', args.Input)
       /\ pc' # "walk"
       /\ visits' = <<>>
       /\ pc' = "fatal" => log' = Append(log, LogLine("input_folder_invalid", args.Input, <<>>))]_vars

(***************************************************************************)
(* Language fallback.                                                      *)
(***************************************************************************)
Calls == {call[i] : i \in DOMAIN call}

\* the entry a table has for a language, English when it has none
EntryFor(lang, en, es) == IF lang = "es" THEN es ELSE en

\* C21: every lookup of a quarter label, a half-year label or a log message
\* returns the entry of the language asked for when the table has one and
\* the English entry otherwise, and the label or text returned is never
\* empty, whatever the language tag.
C21_LanguageFallback ==
  \A c \in Calls :
    /\ c.fn = "quarterInfoForMonth" =>
         /\ c.out.num = QuarterOf(c.time.month)
         /\ c.out.label = EntryFor(c.lang, QuartersEn, QuartersEs)[c.out.num]
         /\ c.out.label # <<>>
    /\ c.fn = "semesterInfoForMonth" =>
         /\ c.out.num = (IF c.time.month <= 6 THEN 1 ELSE 2)
         /\ c.out.label = EntryFor(c.lang, SemestersEn, SemestersEs)[c.out.num]
         /\ c.out.label # <<>>
    /\ (c.fn = "locMsg" /\ c.tag \in MessageKeys) =>
         /\ c.out.label = <<EntryFor(c.lang, MessagesEn(c.tag), MessagesEs(c.tag))>>
         /\ c.out.label[1] # ""
         /\ c.lang = "es" => c.out.label # <<MessagesEn(c.tag)>>
    /\ (c.fn = "locMsg" /\ c.tag \notin MessageKeys) =>
         /\ Len(c.out.label) = 2 /\ c.out.label[1] # ""

\* a message asked for in a language without entries came back in English
C21_Witness ==
  \E c \in Calls :
    /\ c.fn = "locMsg" /\ c.tag = "moved_file" /\ c.lang = "fr"
    /\ c.out.label = <<"Moved: %q => %q">>

(***************************************************************************)
(* The report of a skip.                                                   *)
(***************************************************************************)
\* the visit a step adds, if it is a skip, and the lines the step logs
NewSkips ==
  IF Len(visits') = Len(visits) + 1 /\ visits'[Len(visits')].outcome = "skipped"
  THEN {visits'[Len(visits')]} ELSE {}

NewLines == SubSeq(log', Len(log) + 1, Len(log'))

\* the line of a skip names its reason: a key that no other reason logs
ReasonKeys(by) ==
  CASE by = "relocated" -> {"skipping_file"}
    [] by = "cutoff" -> {"after_before_date"}
    [] OTHER -> {k \in {log'[i].key : i \in DOMAIN log'} :
                   k \notin {"skipping_file", "after_before_date"}}

\* a skip is no error and the walk goes on
SkipIsNoError(v) ==
  /\ v.err = ""
  /\ pc' = "walk"
  /\ \A i \in DOMAIN NewLines :
       NewLines[i].key \notin {"error_organizing", "move_error", "rename_failed"}

\* C22: a visit that skips its file logs one line, for that file, whose
\* message tells which of the three predicates (already relocated, the log
\* file, after the cut-off) held, so that the three reasons have three
\* different messages; the skip is not reported as an error and the walk
\* goes on.
C22_SkipReasonReported ==
  [][\A v \in NewSkips :
       /\ Len(NewLines) = 1
       /\ NewLines[1].src = v.path
       /\ NewLines[1].key \in ReasonKeys(v.by)
       /\ SkipIsNoError(v)]_vars

(***************************************************************************)
(* The handle of the log file.                                             *)
(***************************************************************************)
\* the process has ended: main has returned or log.Fatalf has ended it
Exited == pc \in {"exit", "fatal"}

\* C23: when a process that had opened its log file has ended, after the
\* walk came to its end, on the fatal error of the input folder or on a
\* fatal error the walk returned, the handle of the log file has been closed.
C23_LogFileClosed == Exited => logFile # "open"

(***************************************************************************)
(* The time stamps a scheme's directory is refused for.                    *)
(***************************************************************************)
\* a call of a partitioner for a scheme it has a branch for
Computed(c) ==
  /\ c.fn \in FnPartitioners
  /\ c.fn = "buildAndEnsureTargetDir" => c.format # HalfYears

MonthOutside(t) == t.month < 1 \/ t.month > 12

\* what the day-then-hours branch of the partitioner refuses
DayRefused(fn, t) ==
  \/ MonthOutside(t)
  \/ t.day < 1 \/ t.day > 31
  \/ IF fn = "createFolderFormatDirectory" THEN t.year <= 0 ELSE t.year = 0

RemoveFailed(v) == v.fault = "remove"

\* the errors moveFile returns when the rename and then the copy failed
CopyErrors == {"copy fallback failed"}

\* C25: when the copy of the fallback succeeded and the removal of the
\* original fails, moveFile returns an error of its own, different from the
\* one of a failed copy; the destination holds the complete content with the
\* times of the original, the original is still at its path as it was, and
\* nothing removes it afterwards: the process ends with the original and the
\* copy both in place.
C25_OrphanSourceReported ==
  \A v \in Visited :
    /\ RemoveFailed(v) =>
         /\ v.outcome = "failed" /\ v.how = "remove"
         /\ v.err = "failed removing original" /\ v.err \notin CopyErrors
         /\ WholeAt(v.dstAfter, v.srcBefore[1])
         /\ v.dstAfter[1].mtime = v.mtime
         /\ v.srcAfter = v.srcBefore
         /\ pc = "fatal"
         /\ At(fs, v.path) = v.srcBefore /\ At(fs, v.dst) = v.dstAfter
    /\ v.fault \in {"open", "create", "copy", "chtimes"} => v.err \in CopyErrors

\* the removal failed for a file whose destination had to be numbered
C25_Witness ==
  \E v \in Visited :
    /\ RemoveFailed(v) /\ v.err = "failed removing original"
    /\ v.dst # v.raw
    /\ WholeAt(At(fs, v.dst), v.srcBefore[1]) /\ Exists(fs, v.path)

(***************************************************************************)
(* The order of the filters.                                               *)
(***************************************************************************)
\* the three predicates, for the file of visit v
IsRelocated(v) == Abs(v.path) = Abs(v.cmp)
IsTheLog(v) == cfg.Logger # <<>> /\ Abs(v.path) = Abs(cfg.Logger)
IsAfterCutoff(v) == cfg.Before # <<>> /\ After(v.mtime, ParseDate(cfg.Before[1]))

\* the destination before collisions, as the walk function computes it
RawOf(v) ==
  Join(PartitionDir(v),
       IF cfg.PreserveStructure THEN Rel(cfg.InputFolder, v.path) ELSE <<Base(v.walked)>>)

\* the sequence 1..n of the names of the filters
FilterNames == <<"relocated", "logger", "cutoff">>

\* C26: for every regular file the walk function is called for, the filters
\* are called in the order already-relocated, log-file, cut-off; the first
\* one that holds decides the skip and those after it are not called; the
\* first compares the path with the raw destination, not a numbered one; and
\* moveFile, where collisions are resolved, is called only for a file that
\* no filter skipped.
C26_FiltersInOrder ==
  \A v \in Visited :
    /\ v.asked = SubSeq(FilterNames, 1,
                        IF IsRelocated(v) THEN 1 ELSE IF IsTheLog(v) THEN 2 ELSE 3)
    /\ v.by = (IF IsRelocated(v) THEN "relocated" ELSE IF IsTheLog(v) THEN "logger"
               ELSE IF IsAfterCutoff(v) THEN "cutoff" ELSE "")
    /\ v.outcome = "skipped" <=> (IsRelocated(v) \/ IsTheLog(v) \/ IsAfterCutoff(v))
    /\ v.fault # "mkdirU" => v.cmp = RawOf(v)
    /\ v.raw # <<>> /\ v.fault # "mkdirU" => v.cmp = v.raw
    /\ v.outcome = "skipped" => (v.how = "" /\ v.dst = <<>> /\ v.raw = <<>>)
    /\ v.how # "" => (v.asked = FilterNames /\ v.by = "")

\* the log file, last written after the cut-off: skipped as the log file,
\* and the cut-off was not asked
C26_Witness ==
  \E v \in Visited :
    /\ IsTheLog(v) /\ IsAfterCutoff(v)
    /\ v.outcome = "skipped" /\ v.by = "logger"
    /\ v.asked = <<"relocated", "logger">>

(***************************************************************************)
(* The destination in the record of a move.                                *)
(***************************************************************************)
\* the visit a step of a live run adds, if it moved its file
NewMoves ==
  IF /\ Len(visits') = Len(visits) + 1
     /\ visits'[Len(visits')].outcome = "moved"
     /\ ~cfg.DryRun
  THEN {visits'[Len(visits')]} ELSE {}

\* C27: the line a live run logs for a file it moved names, as the
\* destination, the path at which the file is after the move: the final
\* destination that collision resolution gave, also when the raw destination
\* was taken and the file was stored under a numbered name.
C27_MovedRecordIsFinal ==
  [][\A v \in NewMoves :
       \E i \in DOMAIN NewLines :
         /\ NewLines[i].key = "moved_file"
         /\ NewLines[i].src = v.path
         /\ NewLines[i].dst = v.dst
         /\ WholeAt(At(fs', NewLines[i].dst), v.srcBefore[1])]_vars

(***************************************************************************)
(* What a skipped file costs.                                              *)
(***************************************************************************)
\* C28: in a live run the visit of a file that is skipped, as already
\* relocated, as the log file or as modified after the cut-off, changes
\* nothing in the file system: no directory is made and no file is moved,
\* copied or removed.
C28_SkipChangesNothing ==
  \A v \in Visited :
    (v.outcome = "skipped" /\ ~cfg.DryRun) => v.touched = {}

(***************************************************************************)
(* The partition directory of every scheme.                                *)
(***************************************************************************)
\* the directory the scheme of the configuration defines for the file of v
SchemeDir(v) == createFolderFormatDirectory(cfg.OutputFolder, v.mtime, cfg).dir

StrictlyBelow(dir, p) == IsPrefix(dir, p) /\ p # dir

\* C29: whatever scheme the configuration carries (year-then-quarters,
\* day-then-hours or half-years), the partition directory the walk computes
\* for a file is the one the scheme defines for the file's modification
\* time, a directory below the output root, never the empty path; and the
\* final destination of every file the walk relocates is inside it.
C29_UnderPartitionDir ==
  \A v \in Visited :
    /\ StrictlyBelow(cfg.OutputFolder, SchemeDir(v))
    /\ v.fault # "mkdirU" => StrictlyBelow(SchemeDir(v), v.cmp)
    /\ v.outcome = "moved" => StrictlyBelow(SchemeDir(v), v.dst)

(***************************************************************************)
(* Termination.                                                            *)
(***************************************************************************)
\* the names with a number that ensureUniquePath found taken before it
\* returned k: its loop ran k times
LoopBounded(v) ==
  \E k \in 0..Cardinality(v.pre) :
    /\ v.dst = (IF k = 0 THEN v.raw ELSE Numbered(v.raw, k))
    /\ k > 0 => v.raw \in v.pre
    /\ \A j \in 1..(k - 1) : Numbered(v.raw, j) \in v.pre

\* the regular files of the tree the walk started on, and what the walk has
\* for each of them: a visit with an outcome, or a logged error of the
\* traversal
FilesAtStart == {p \in DOMAIN fs0 : IsFileAt(fs0, p) /\ IsPrefix(cfg.InputFolder, p)}

Settled(p) ==
  \/ \E v \in Visited : v.walked = p /\ v.outcome \in {"moved", "skipped", "failed"}
  \/ \E i \in DOMAIN log :
       log[i].key = "error_organizing" /\ IsPrefix(log[i].src, p)

\* C30: ensureUniquePath returns after as many rounds as there are taken
\* names with a number, plus one; and every process comes to its end: from
\* any state of a run the process reaches its exit or its fatal end, and
\* when the walk came to its end every regular file of the tree it started
\* on has an outcome or an error of the traversal logged for it or for a
\* directory above it.
C30_Terminates ==
  /\ [](\A v \in Visited : v.how # "" => LoopBounded(v))
  /\ [](pc = "exit" => \A p \in FilesAtStart : Settled(p))
  /\ (~Exited) ~> Exited

\* a walk that came to its end after a file whose destination took two
\* rounds of numbering
C30_Witness ==
  /\ pc = "exit"
  /\ \E v \in Visited : v.how = "rename" /\ v.dst = Numbered(v.raw, 2)

====
